---- MODULE Spec2Model ----
(***************************************************************************)
(* Model of the nlbash translation pipeline (api.py), the history log      *)
(* (history.py), the display formatter (formatter.py) and the command-line *)
(* front end (nlbash.py).                                                  *)
(*                                                                         *)
(* Python strings are sequences of one-character strings.  Exceptions are  *)
(* records naming the class raised and a message; "caught by `except C`"   *)
(* is IsSubclass(class, C).                                                *)
(***************************************************************************)
EXTENDS Integers, Sequences, FiniteSets, TLC

VARIABLES
    pc,          \* position of the modelled run: "start", "prompt", "done"
    query,       \* the query argument: a string, or None
    typed,       \* what the user types when cli prompts for the query
    apiKey,      \* module-level API_KEY: a string, or None when the variable is unset
    net,         \* what requests.post does when called: a fault or a response
    outcome,     \* how translate_to_bash ended: return value or raised error
    extracted,   \* the command after marker extraction (api.py:146-150), or Unset
    posts,       \* number of requests.post invocations in this run
    noExecute,   \* the --no-execute flag
    answer,      \* the value Prompt.ask returned for the confirmation, "" before
    copyOutcome, \* what the clipboard step does
    histEnabled, \* config history.enabled
    maxEntries,  \* config history.max_entries
    histFile,    \* text of the history file, a sequence of characters
    histIO,      \* whether opening the history file succeeds
    histLog,     \* the (query, command) pairs passed to add_to_history
    histRet,     \* what the last get_history call returned
    histLimit,   \* the limit argument of the last get_history call
    lastOp,      \* the last history operation executed
    adds,        \* number of add_to_history calls so far
    cliErr,      \* the error printed by cli, or NoErr
    formatted,   \* the value of formatted_command in cli, or Unset
    systemCalls  \* the strings passed to os.system, in order

vars == <<pc, query, typed, apiKey, net, outcome, extracted, posts, noExecute,
          answer, copyOutcome, histEnabled, maxEntries, histFile, histIO,
          histLog, histRet, histLimit, lastOp, adds, cliErr, formatted,
          systemCalls>>

\* the environment of a run: arguments, configuration, credential, network
envVars == <<typed, apiKey, net, noExecute, copyOutcome, histEnabled,
             maxEntries, histIO>>
\* what the history operations write
historyVars == <<histFile, histLog, histRet, histLimit, lastOp, adds>>
\* what cli writes
cliVars == <<answer, cliErr, formatted, systemCalls>>
\* what translate_to_bash writes
translateVars == <<outcome, extracted, posts>>

----------------------------------------------------------------------------
(* Bounds *)

MaxFrags == 3
MaxCliFrags == 2
MaxAdds == 2
MaxLimit == 2

----------------------------------------------------------------------------
(* Python string primitives *)

Whitespace == {" ", "\n", "\t"}

Min(a, b) == IF a <= b THEN a ELSE b

\* s[i:i+len(p)] == p
MatchAt(s, p, i) ==
    /\ i >= 1
    /\ i + Len(p) - 1 <= Len(s)
    /\ \A k \in 1..Len(p) : s[i + k - 1] = p[k]

\* `p in s`
Contains(s, p) == \E i \in 1..Len(s) : MatchAt(s, p, i)

\* s.startswith(p)
StartsWith(s, p) == Len(p) = 0 \/ MatchAt(s, p, 1)

RECURSIVE LStrip(_)
LStrip(s) ==
    IF s = <<>> THEN <<>>
    ELSE IF Head(s) \in Whitespace THEN LStrip(Tail(s))
    ELSE s

RECURSIVE RStrip(_)
RStrip(s) ==
    IF s = <<>> THEN <<>>
    ELSE IF s[Len(s)] \in Whitespace THEN RStrip(SubSeq(s, 1, Len(s) - 1))
    ELSE s

\* s.strip()
Strip(s) == RStrip(LStrip(s))

\* s.find(p, i): the leftmost index >= i at which p occurs, 0 when none
RECURSIVE Find(_, _, _)
Find(s, p, i) ==
    IF i + Len(p) - 1 > Len(s) THEN 0
    ELSE IF MatchAt(s, p, i) THEN i
    ELSE Find(s, p, i + 1)

\* variant: s.rsplit(p, 1)[1], the text after the last occurrence
AfterLast(s, p) ==
    LET last == CHOOSE i \in 1..Len(s) :
                    MatchAt(s, p, i) /\ \A j \in (i + 1)..Len(s) : ~MatchAt(s, p, j)
    IN SubSeq(s, last + Len(p), Len(s))

\* s.split(p, 1)[1], for s containing p
AfterFirst(s, p) == SubSeq(s, Find(s, p, 1) + Len(p), Len(s))

\* len(s.split()): the number of maximal runs of non-whitespace, counted by
\* the positions at which a run ends
NumTokens(s) ==
    Cardinality({i \in 1..Len(s) :
                    s[i] \notin Whitespace
                        /\ (i = Len(s) \/ s[i + 1] \in Whitespace)})

----------------------------------------------------------------------------
(* Literals of api.py *)

Marker == <<"c", "o", "m", "m", "a", "n", "d", ":">>

RmRfRoot == <<"r", "m", " ", "-", "r", "f", " ", "/">>
RmRfStar == <<"r", "m", " ", "-", "r", "f", " ", "/", "*">>
DevSda == <<">", " ", "/", "d", "e", "v", "/", "s", "d", "a">>

dangerous_patterns == {RmRfRoot, RmRfStar, DevSda}

MaxTokens == 50

JsonType == <<"a", "p", "p", "l", "i", "c", "a", "t", "i", "o", "n", "/",
              "j", "s", "o", "n">>

----------------------------------------------------------------------------
(* Exceptions *)

\* class hierarchy: api.py:9-19, and the requests / builtin classes that
\* the except clauses of translate_to_bash name
Parents(c) ==
    CASE c = "APIAuthenticationError" -> {"TranslationError"}
      [] c = "APIRateLimitError" -> {"TranslationError"}
      [] c = "TranslationError" -> {"Exception"}
      [] c = "ConnectTimeout" -> {"ConnectionError", "Timeout"}
      [] c = "Timeout" -> {"RequestException"}
      [] c = "ConnectionError" -> {"RequestException"}
      [] c = "JSONDecodeError" -> {"RequestException", "ValueError"}
      [] c = "RequestException" -> {"Exception"}
      [] c = "ValueError" -> {"Exception"}
      [] c = "AttributeError" -> {"Exception"}
      [] c = "PyperclipException" -> {"Exception"}
      [] c = "ImportError" -> {"Exception"}
      [] c = "OSError" -> {"Exception"}
      [] OTHER -> {}

RECURSIVE IsSubclass(_, _)
IsSubclass(c, d) == c = d \/ \E p \in Parents(c) : IsSubclass(p, d)

Unset == [t |-> "unset"]

Raise(c, m) == [kind |-> "raise", class |-> c, msg |-> m, value |-> <<>>]
Return(v) == [kind |-> "return", class |-> "", msg |-> <<>>, value |-> v]
Pending == [kind |-> "pending", class |-> "", msg |-> <<>>, value |-> <<>>]

----------------------------------------------------------------------------
(* JSON values as Python objects *)

JNull == [t |-> "null"]
JStr(s) == [t |-> "str", v |-> s]
JNum(n) == [t |-> "num", v |-> n]
JList(xs) == [t |-> "list", v |-> xs]
JDict(f) == [t |-> "dict", v |-> f]
EmptyDict == [t |-> "dict", v |-> <<>>]

\* bool(x)
Truthy(x) ==
    CASE x.t = "null" -> FALSE
      [] x.t = "str" -> x.v # <<>>
      [] x.t = "num" -> x.v # 0
      [] x.t = "list" -> x.v # <<>>
      [] x.t = "dict" -> DOMAIN x.v # {}
      [] OTHER -> FALSE

\* d.get(key, default)
DictGet(d, key, default) == IF key \in DOMAIN d.v THEN d.v[key] ELSE default

----------------------------------------------------------------------------
(* translate_to_bash *)

\* what a run of translate_to_bash did: how it ended, the value of the local
\* `command` if the extraction was reached, and the number of requests.post
\* invocations
Run(res, command, n) == [res |-> res, command |-> command, posts |-> n]

\* status_errors.get(status, "API request failed with status code: N")
StatusMessage(status) ==
    CASE status = 400 -> <<"Bad request: Please check your query format">>
      [] status = 401 -> <<"Invalid API key or unauthorized access">>
      [] status = 403 -> <<"Access forbidden: Please check your API key permissions">>
      [] status = 404 -> <<"API endpoint not found: Please check the API URL">>
      [] status = 429 -> <<"API rate limit exceeded: Please try again later">>
      [] status = 500 -> <<"Internal server error: Please try again later">>
      [] status = 503 -> <<"Service unavailable: The API is temporarily down">>
      [] OTHER -> <<"API request failed with status code: N">>

\* api.py:104-115
StatusCheck(status) ==
    IF status = 401 THEN Raise("APIAuthenticationError", StatusMessage(status))
    ELSE IF status = 429 THEN Raise("APIRateLimitError", StatusMessage(status))
    ELSE Raise("TranslationError", StatusMessage(status))

\* variant: `command in dangerous_patterns`
IsDangerous_Exact(command) == command \in dangerous_patterns

\* any(pattern in command for pattern in dangerous_patterns)
IsDangerous(command) == \E p \in dangerous_patterns : Contains(command, p)

\* api.py:146-150
ExtractCommand(content) ==
    IF Contains(content, Marker) THEN Strip(AfterFirst(content, Marker))
    ELSE Strip(content)

\* api.py:152-165
Validate(command) ==
    IF command = <<>>
    THEN Raise("TranslationError", <<"Empty command received from API">>)
    ELSE IF NumTokens(command) > MaxTokens
    THEN Raise("TranslationError", <<"Generated command is suspiciously long">>)
    ELSE IF IsDangerous(command)
    THEN Raise("TranslationError",
               <<"Generated command contains potentially dangerous operations">>)
    ELSE Return(command)

\* api.py:141-165, for message a dict
FromMessage(message) ==
    LET raw == DictGet(message, "content", JStr(<<>>)) IN
    IF raw.t # "str"
    THEN Run(Raise("AttributeError", <<"object has no attribute 'strip'">>), Unset, 1)
    ELSE LET content == Strip(raw.v) IN
         IF content = <<>>
         THEN Run(Raise("TranslationError", <<"Empty response received from API">>),
                  Unset, 1)
         ELSE LET command == ExtractCommand(content) IN
              Run(Validate(command), JStr(command), 1)

\* api.py:123-165: the body of the inner try
ParseBody(resp) ==
    IF ~resp.json
    THEN Run(Raise("JSONDecodeError", <<"Expecting value">>), Unset, 1)
    ELSE LET result == resp.body IN
    IF result.t # "dict"
    THEN Run(Raise("TranslationError", <<"Invalid API response: expected JSON object">>),
             Unset, 1)
    ELSE LET choices == DictGet(result, "choices", JList(<<>>)) IN
    IF ~Truthy(choices) \/ choices.t # "list"
    THEN Run(Raise("TranslationError",
                   <<"Invalid API response: missing or invalid 'choices' field">>),
             Unset, 1)
    ELSE LET choice == choices.v[1] IN
    IF choice.t # "dict"
    THEN Run(Raise("TranslationError",
                   <<"Invalid API response: first choice is not an object">>),
             Unset, 1)
    ELSE LET message == DictGet(choice, "message", EmptyDict) IN
    IF message.t # "dict"
    THEN Run(Raise("TranslationError",
                   <<"Invalid API response: message is not an object">>),
             Unset, 1)
    ELSE FromMessage(message)

\* api.py:122-167: the inner try with its `except ValueError`
InnerTry(resp) ==
    LET r == ParseBody(resp) IN
    IF r.res.kind = "raise" /\ IsSubclass(r.res.class, "ValueError")
    THEN Run(Raise("TranslationError",
                   <<"Invalid JSON response from API: ">> \o r.res.msg),
             r.command, r.posts)
    ELSE r

\* response.headers.get('content-type', '')
ContentTypeOf(resp) == IF resp.ctype.t = "str" THEN resp.ctype.v ELSE <<>>

\* variant: a transport fault is retried once before it is raised
OuterBody_Retry(n) ==
    IF n.fault # ""
    THEN Run(Raise(n.fault, <<"transport fault">>), Unset, 2)
    ELSE IF n.status # 200
    THEN Run(StatusCheck(n.status), Unset, 1)
    ELSE IF ~StartsWith(ContentTypeOf(n), JsonType)
    THEN Run(Raise("TranslationError", <<"Invalid response format: expected JSON">>),
             Unset, 1)
    ELSE InnerTry(n)

\* api.py:72-167: the body of the outer try; requests.post is invoked once
OuterBody(n) ==
    IF n.fault # ""
    THEN Run(Raise(n.fault, <<"transport fault">>), Unset, 1)
    ELSE IF n.status # 200
    THEN Run(StatusCheck(n.status), Unset, 1)
    ELSE IF ~StartsWith(ContentTypeOf(n), JsonType)
    THEN Run(Raise("TranslationError", <<"Invalid response format: expected JSON">>),
             Unset, 1)
    ELSE InnerTry(n)

\* variant: the except clauses without the one for Timeout
OuterExcept_NoTimeout(e) ==
    IF IsSubclass(e.class, "ConnectionError")
    THEN Raise("TranslationError", <<"Could not connect to the API server">>)
    ELSE IF IsSubclass(e.class, "RequestException")
    THEN Raise("TranslationError", <<"API request failed: ">> \o e.msg)
    ELSE IF IsSubclass(e.class, "Exception")
    THEN Raise("TranslationError", <<"Translation failed: ">> \o e.msg)
    ELSE e

\* api.py:169-176: the except clauses of the outer try, in order
OuterExcept(e) ==
    IF IsSubclass(e.class, "Timeout")
    THEN Raise("TranslationError", <<"API request timed out">>)
    ELSE IF IsSubclass(e.class, "ConnectionError")
    THEN Raise("TranslationError", <<"Could not connect to the API server">>)
    ELSE IF IsSubclass(e.class, "RequestException")
    THEN Raise("TranslationError", <<"API request failed: ">> \o e.msg)
    ELSE IF IsSubclass(e.class, "Exception")
    THEN Raise("TranslationError", <<"Translation failed: ">> \o e.msg)
    ELSE e

\* isinstance(query, str) and query.strip()
ValidQuery(q) == q.t = "str" /\ Strip(q.v) # <<>>

\* `not API_KEY`
KeyMissing(k) == ~Truthy(k)

\* variant: the credential is checked after the request was sent
translate_to_bash_LateKeyCheck(q, k, n) ==
    IF ~ValidQuery(q)
    THEN Run(Raise("ValueError", <<"Query must be a non-empty string">>), Unset, 0)
    ELSE LET r == OuterBody(n) IN
         IF KeyMissing(k)
         THEN Run(Raise("APIAuthenticationError", <<"API key not found">>),
                  r.command, r.posts)
         ELSE IF r.res.kind = "raise"
         THEN Run(OuterExcept(r.res), r.command, r.posts)
         ELSE r

\* api.py:41-176
translate_to_bash(q, k, n) ==
    IF ~ValidQuery(q)
    THEN Run(Raise("ValueError", <<"Query must be a non-empty string">>), Unset, 0)
    ELSE IF KeyMissing(k)
    THEN Run(Raise("APIAuthenticationError", <<"API key not found">>), Unset, 0)
    ELSE LET r == OuterBody(n) IN
         IF r.res.kind = "raise"
         THEN Run(OuterExcept(r.res), r.command, r.posts)
         ELSE r

----------------------------------------------------------------------------
(* formatter.py *)

\* formatter.py:1-13
format_command(command) ==
    LET c == Strip(command) IN
    IF Contains(c, RmRfRoot) \/ Contains(c, RmRfStar)
    THEN Raise("ValueError", <<"Potentially dangerous command detected">>)
    ELSE Return(c)

----------------------------------------------------------------------------
(* history.py *)

\* datetime.now().strftime("%Y-%m-%d %H:%M:%S"), at one instant
Timestamp == <<"2", "0", "2", "4", "-", "0", "1", "-", "0", "1", " ",
               "0", "0", ":", "0", "0", ":", "0", "0">>

NLTag == <<"N", "L", ":">>

\* the text the two f.write calls of add_to_history append (history.py:18-19)
HistoryEntry(q, command) ==
    <<"#", " ">> \o Timestamp \o <<" ", "-", " ">> \o NLTag \o <<" ">> \o q
        \o <<"\n">> \o command \o <<"\n">>

\* history.py:6-22: the file after add_to_history(q, command)
add_to_history(file, enabled, io, q, command) ==
    IF ~enabled THEN file
    ELSE IF ~io THEN file
    ELSE file \o HistoryEntry(q, command)

\* f.readlines(): the lines of the text, each keeping its newline
RECURSIVE ReadLines(_)
ReadLines(text) ==
    IF text = <<>> THEN <<>>
    ELSE IF \A i \in 1..Len(text) : text[i] # "\n" THEN <<text>>
    ELSE LET e == CHOOSE i \in 1..Len(text) :
                      text[i] = "\n" /\ \A j \in 1..(i - 1) : text[j] # "\n"
         IN <<SubSeq(text, 1, e)>> \o ReadLines(SubSeq(text, e + 1, Len(text)))

\* line.startswith("#") and "NL:" in line
IsEntryLine(line) == StartsWith(line, <<"#">>) /\ Contains(line, NLTag)

\* history.py:38-42: the loop over reversed(lines), at index i
RECURSIVE ScanHistory(_, _, _, _)
ScanHistory(lines, i, history, cap) ==
    IF i < 1 THEN history
    ELSE LET h == IF IsEntryLine(lines[i])
                  THEN Append(history, Strip(lines[i]))
                  ELSE history
         IN IF Len(h) >= cap THEN h
            ELSE ScanHistory(lines, i - 1, h, cap)

\* history.py:24-46
get_history(file, enabled, io, maxE, limit) ==
    IF ~enabled THEN <<>>
    ELSE IF ~io THEN <<>>
    ELSE LET lines == ReadLines(file) IN
         ScanHistory(lines, Len(lines), <<>>, Min(limit, maxE))

----------------------------------------------------------------------------
(* Inputs *)

SP == <<" ">>
NL == <<"\n">>
LsLa == <<"l", "s", " ", "-", "l", "a">>
Star == <<"*">>

Fragments == {SP, NL, Marker, LsLa, RmRfRoot, Star, DevSda}

\* all concatenations of at most n fragments
RECURSIVE Concats(_)
Concats(n) ==
    IF n = 0 THEN {<<>>}
    ELSE LET prev == Concats(n - 1) IN
         prev \cup {p \o f : p \in prev, f \in Fragments}

\* k tokens "a", each followed by a blank
Rep(k) == [i \in 1..(2 * k) |-> IF i % 2 = 1 THEN "a" ELSE " "]

LongContents ==
    {pre \o Rep(k) : pre \in {<<>>, Marker, Marker \o SP \o LsLa \o SP \o Marker},
                     k \in {MaxTokens - 1, MaxTokens, MaxTokens + 1}}

Contents(n) == Concats(n) \cup LongContents

\* response.json() values built around a content
ResultsOf(contentValues) ==
    LET messages == {JDict([content |-> c]) : c \in contentValues}
                       \cup {EmptyDict, JNull, JStr(<<"m">>)}
        choice   == {JDict([message |-> m]) : m \in messages}
                       \cup {EmptyDict, JNull}
        choices  == {JList(<<c>>) : c \in choice}
                       \cup {JList(<<>>), JNull, JStr(<<"x">>),
                             JDict([a |-> JNum(1)])}
    IN {JDict([choices |-> ch]) : ch \in choices}
           \cup {EmptyDict, JList(<<>>)}

Results(n) == ResultsOf({JStr(c) : c \in Contents(n)} \cup {JNull, JNum(5)})

Statuses == {200, 401, 403, 429, 500, 418}

ContentTypes ==
    {JNull, JStr(JsonType), JStr(JsonType \o <<";", " ", "q">>),
     JStr(<<"t", "e", "x", "t", "/", "h", "t", "m", "l">>)}

Faults == {"Timeout", "ConnectionError", "ConnectTimeout", "RequestException"}

Fault(c) == [fault |-> c, status |-> 0, ctype |-> JNull, json |-> FALSE, body |-> JNull]
Response(st, ct, js, b) ==
    [fault |-> "", status |-> st, ctype |-> ct, json |-> js, body |-> b]

Nets(n) ==
    {Fault(c) : c \in Faults}
        \cup {Response(st, ct, FALSE, JNull) : st \in Statuses, ct \in ContentTypes}
        \cup {Response(st, ct, TRUE, b) :
                  st \in Statuses, ct \in ContentTypes, b \in Results(n)}

AllNets == Nets(MaxFrags)
CliNets == Nets(MaxCliFrags)

\* a response whose body is a well-formed completion with the given content
Completion(st, c) ==
    Response(st, JStr(JsonType), TRUE,
             JDict([choices |->
                 JList(<<JDict([message |-> JDict([content |-> JStr(c)])])>>)]))

\* the network behaviours paired with invocations that end before the request
EarlyNets ==
    {Fault(c) : c \in Faults}
        \cup {Completion(st, LsLa) : st \in Statuses}
        \cup {Response(200, JNull, FALSE, JNull)}

Queries == {JNull, JStr(<<>>), JStr(SP), JStr(<<"q">>)}
Keys == {JNull, JStr(<<>>), JStr(<<"k">>)}

TranslateInputs(nets) ==
    {[q |-> q, k |-> k, n |-> n] : q \in Queries, k \in Keys, n \in EarlyNets}
        \cup {[q |-> q, k |-> k, n |-> n] :
                  q \in {x \in Queries : ValidQuery(x)},
                  k \in {x \in Keys : ~KeyMissing(x)},
                  n \in nets}

NoErr == [kind |-> "none", class |-> "", msg |-> <<>>, value |-> <<>>]

Idle ==
    /\ pc = "start"
    /\ outcome = Pending
    /\ extracted = Unset
    /\ posts = 0
    /\ histLog = <<>>
    /\ histRet = <<>>
    /\ histLimit = 0
    /\ lastOp = "init"
    /\ adds = 0
    /\ cliErr = NoErr
    /\ formatted = Unset
    /\ systemCalls = <<>>
    /\ answer = ""

----------------------------------------------------------------------------
(* Specification of one invocation of translate_to_bash *)

Init ==
    /\ Idle
    /\ \E i \in TranslateInputs(AllNets) :
           query = i.q /\ apiKey = i.k /\ net = i.n
    /\ typed = <<>>
    /\ noExecute = TRUE
    /\ copyOutcome = "disabled"
    /\ histEnabled = FALSE
    /\ maxEntries = 1000
    /\ histFile = <<>>
    /\ histIO = TRUE

Translate ==
    /\ pc = "start"
    /\ LET r == translate_to_bash(query, apiKey, net) IN
           /\ outcome' = r.res
           /\ extracted' = r.command
           /\ posts' = posts + r.posts
    /\ pc' = "done"
    /\ UNCHANGED <<query, envVars, historyVars, cliVars>>

Next == Translate

Spec == Init /\ [][Next]_vars

----------------------------------------------------------------------------
(* Properties of translate_to_bash, checked under Spec *)

Done == pc = "done"

\* the request is made: the query is valid and the credential is present
ValidCall == ValidQuery(query) /\ ~KeyMissing(apiKey)

Raised(c) == outcome.kind = "raise" /\ IsSubclass(outcome.class, c)

\* C1: with a valid query and the credential present, a response with status
\* 401 or 403 reaches the caller as an APIAuthenticationError, whatever the
\* body and the content type are.
C1_AuthErrorOn401And403 ==
    (Done /\ ValidCall /\ net.fault = "" /\ net.status \in {401, 403})
        => Raised("APIAuthenticationError")

\* C2: with a valid query and the credential present, a response with status
\* 429 reaches the caller as an APIRateLimitError, whatever the body is.
C2_RateLimitErrorOn429 ==
    (Done /\ ValidCall /\ net.fault = "" /\ net.status = 429)
        => Raised("APIRateLimitError")

\* C3: with the credential missing or empty, a call with a valid query
\* raises APIAuthenticationError and requests.post is never invoked.
C3_MissingKeyFailsFast ==
    (Done /\ ValidQuery(query) /\ (apiKey = JNull \/ apiKey = JStr(<<>>)))
        => (Raised("APIAuthenticationError") /\ posts = 0)

C3_Witness ==
    /\ Done
    /\ ValidQuery(query)
    /\ apiKey = JNull
    /\ net.fault = "" /\ net.status = 200
    /\ outcome.class = "APIAuthenticationError"
    /\ posts = 0

\* the positions at which a whitespace-separated token of v starts
TokenStarts(v) ==
    {i \in 1..Len(v) : v[i] \notin Whitespace /\ (i = 1 \/ v[i - 1] \in Whitespace)}

HasSubstring(v, p) ==
    \E i \in 1..(Len(v) - Len(p) + 1) : SubSeq(v, i, i + Len(p) - 1) = p

Vetted(v) ==
    /\ v # <<>>
    /\ v[1] \notin Whitespace
    /\ v[Len(v)] \notin Whitespace
    /\ Cardinality(TokenStarts(v)) <= 50
    /\ ~HasSubstring(v, RmRfRoot)
    /\ ~HasSubstring(v, RmRfStar)
    /\ ~HasSubstring(v, DevSda)

\* C4: every string translate_to_bash returns is non-empty, has no leading
\* or trailing whitespace, has at most 50 whitespace-separated tokens and
\* contains no deny-list substring; an extracted command of 51 or more
\* tokens, or one containing 'rm -rf /', raises TranslationError.
C4_ReturnedCommandIsVetted ==
    /\ outcome.kind = "return" => Vetted(outcome.value)
    /\ (Done /\ extracted # Unset
          /\ (Cardinality(TokenStarts(extracted.v)) >= 51
                \/ HasSubstring(extracted.v, RmRfRoot)))
         => Raised("TranslationError")

C4_Witness ==
    /\ Done
    /\ outcome.kind = "return"
    /\ Cardinality(TokenStarts(outcome.value)) = 50

\* the `content` string of the first choice of a well-formed 200 response
HasContent ==
    /\ net.fault = "" /\ net.status = 200
    /\ StartsWith(ContentTypeOf(net), JsonType)
    /\ net.json
    /\ net.body.t = "dict" /\ "choices" \in DOMAIN net.body.v
    /\ LET chs == net.body.v["choices"] IN
       /\ chs.t = "list" /\ Len(chs.v) >= 1
       /\ chs.v[1].t = "dict" /\ "message" \in DOMAIN chs.v[1].v
       /\ LET m == chs.v[1].v["message"] IN
          /\ m.t = "dict" /\ "content" \in DOMAIN m.v
          /\ m.v["content"].t = "str"

TheContent == net.body.v["choices"].v[1].v["message"].v["content"].v

\* the first occurrence of the marker in c is at i
FirstMarkerAt(c, i) ==
    /\ i + Len(Marker) - 1 <= Len(c)
    /\ SubSeq(c, i, i + Len(Marker) - 1) = Marker
    /\ \A j \in 1..(i - 1) : SubSeq(c, j, j + Len(Marker) - 1) # Marker

ExpectedCommand(c) ==
    IF \E i \in 1..Len(c) : FirstMarkerAt(c, i)
    THEN LET i == CHOOSE i \in 1..Len(c) : FirstMarkerAt(c, i)
         IN Strip(SubSeq(c, i + Len(Marker), Len(c)))
    ELSE Strip(c)

\* C5: for a 200 JSON response whose first choice has string content that
\* is not blank, the extracted command is the trimmed text after the first
\* 'command:' marker, or the whole trimmed content when there is no marker;
\* a returned command is that extracted command.
C5_MarkerExtraction ==
    (Done /\ ValidCall /\ HasContent /\ Strip(TheContent) # <<>>)
        => /\ extracted = JStr(ExpectedCommand(TheContent))
           /\ outcome.kind = "return" => outcome.value = ExpectedCommand(TheContent)
           /\ TheContent \in {Marker \o SP \o LsLa, LsLa}
                 => outcome = Return(LsLa)

C5_Witness ==
    /\ Done /\ ValidCall /\ HasContent
    /\ TheContent = Marker \o LsLa \o Marker
    /\ outcome = Return(LsLa \o Marker)

C7_AllErrorsDeriveFromTranslationError ==
    Done => /\ outcome.kind \in {"raise", "return"}
            /\ outcome.kind = "raise" => IsSubclass(outcome.class, "TranslationError")

----------------------------------------------------------------------------
(* Specification of the history log: add_to_history and get_history *)

HashNL == <<"#">> \o NLTag

PriorFiles == {<<>>, LsLa \o NL, <<"#", " ">> \o NLTag \o <<" ", "q">> \o NL}
HistQueries == {<<"q">>}
HistCommands == {LsLa, HashNL, <<"l", "s", "\n", "p", "w", "d">>}
MaxEntriesValues == {1, 1000}

InitHistory ==
    /\ Idle
    /\ query = JNull
    /\ typed = <<>>
    /\ apiKey = JNull
    /\ net = Fault("ConnectionError")
    /\ noExecute = TRUE
    /\ copyOutcome = "disabled"
    /\ histEnabled \in BOOLEAN
    /\ maxEntries \in MaxEntriesValues
    /\ histIO \in BOOLEAN
    /\ histFile \in PriorFiles

AddToHistory(q, command) ==
    /\ adds < MaxAdds
    /\ histFile' = add_to_history(histFile, histEnabled, histIO, q, command)
    /\ histLog' = Append(histLog, <<q, command>>)
    /\ adds' = adds + 1
    /\ lastOp' = "add"
    /\ UNCHANGED <<pc, query, envVars, translateVars, cliVars, histRet, histLimit>>

GetHistory(limit) ==
    /\ histRet' = get_history(histFile, histEnabled, histIO, maxEntries, limit)
    /\ histLimit' = limit
    /\ lastOp' = "get"
    /\ UNCHANGED <<pc, query, envVars, translateVars, cliVars, histFile, histLog,
                   adds>>

NextHistory ==
    \/ \E q \in HistQueries, c \in HistCommands : AddToHistory(q, c)
    \/ \E limit \in 0..MaxLimit : GetHistory(limit)

SpecHistory == InitHistory /\ [][NextHistory]_vars

\* C9: get_history(limit) never returns more than
\* min(limit, history.max_entries) entries, for every limit >= 0 and every
\* content of the file.
C9_HistoryBounded ==
    lastOp = "get" => Len(histRet) <= Min(histLimit, maxEntries)

----------------------------------------------------------------------------
(* Specification of one run of the command-line front end, nlbash.py *)

CopyOutcomes == {"disabled", "import_error", "copied", "pyperclip_error", "os_error"}

\* nlbash.py:34-46: the error the clipboard step lets escape, or NoErr
CopyToClipboard(co) ==
    IF co = "os_error" THEN Raise("OSError", <<"clipboard">>) ELSE NoErr

\* str.lower() on the answers of the confirmation prompt
Lower(c) == IF c = "Y" THEN "y" ELSE IF c = "N" THEN "n" ELSE c

\* Prompt.ask(..., choices=["y", "n"], default="n") for a line the prompt
\* accepts: the empty line stands for the default
PromptAsk(raw) == IF raw = "" THEN "n" ELSE raw

\* variant: `if execute:`
Confirmed_Truthy(execute) == execute # ""

\* nlbash.py:56
Confirmed(execute) == Lower(execute) = "y"

InitCli ==
    /\ Idle
    /\ \E i \in TranslateInputs(CliNets) :
           query = i.q /\ apiKey = i.k /\ net = i.n
    /\ typed \in {<<>>, <<"q">>}
    /\ noExecute \in BOOLEAN
    /\ copyOutcome \in CopyOutcomes
    /\ histEnabled \in BOOLEAN
    /\ maxEntries = 1000
    /\ histIO \in BOOLEAN
    /\ histFile = <<>>

\* nlbash.py:19-48: from the start of cli to the confirmation prompt
CliTranslate ==
    /\ pc = "start"
    /\ LET q == IF ~Truthy(query) THEN JStr(typed) ELSE query
           r == translate_to_bash(q, apiKey, net)
           f == format_command(r.res.value)
           c == CopyToClipboard(copyOutcome)
       IN
       /\ query' = q
       /\ outcome' = r.res
       /\ extracted' = r.command
       /\ posts' = posts + r.posts
       /\ IF r.res.kind = "raise"
          THEN /\ cliErr' = r.res
               /\ pc' = "done"
               /\ UNCHANGED <<formatted, historyVars>>
          ELSE IF f.kind = "raise"
          THEN /\ cliErr' = f
               /\ pc' = "done"
               /\ UNCHANGED <<formatted, historyVars>>
          ELSE /\ formatted' = JStr(f.value)
               /\ histFile' = add_to_history(histFile, histEnabled, histIO,
                                             q.v, r.res.value)
               /\ histLog' = Append(histLog, <<q.v, r.res.value>>)
               /\ adds' = adds + 1
               /\ lastOp' = "add"
               /\ UNCHANGED <<histRet, histLimit>>
               /\ cliErr' = c
               /\ pc' = IF c.kind = "raise" \/ noExecute THEN "done" ELSE "prompt"
    /\ UNCHANGED <<envVars, answer, systemCalls>>

\* nlbash.py:49-58: the confirmation prompt and the execution
CliAnswer(raw) ==
    /\ pc = "prompt"
    /\ LET execute == PromptAsk(raw) IN
       /\ answer' = execute
       /\ systemCalls' = IF Confirmed(execute)
                         THEN Append(systemCalls, outcome.value)
                         ELSE systemCalls
    /\ pc' = "done"
    /\ UNCHANGED <<query, envVars, translateVars, historyVars, cliErr, formatted>>

NextCli ==
    \/ CliTranslate
    \/ \E raw \in {"", "y", "n"} : CliAnswer(raw)

SpecCli == InitCli /\ [][NextCli]_vars

\* C10: os.system is invoked at most once, and only after translate_to_bash
\* and format_command succeeded, --no-execute is not set and the user
\* answered 'y'; the string executed and the string recorded in the history
\* are the vetted command translate_to_bash returned; when translate_to_bash
\* or format_command raises, neither add_to_history nor os.system is called.
C10_ExecuteOnlyConfirmedVettedCommand ==
    LET tr == translate_to_bash(query, apiKey, net).res IN
    /\ Len(systemCalls) <= 1
    /\ systemCalls # <<>>
          => /\ tr.kind = "return"
             /\ format_command(tr.value).kind = "return"
             /\ formatted # Unset
             /\ ~noExecute
             /\ answer = "y"
             /\ systemCalls = <<tr.value>>
             /\ Vetted(tr.value)
    /\ (Done /\ answer = "n") => systemCalls = <<>>
    /\ histLog # <<>>
          => /\ tr.kind = "return"
             /\ format_command(tr.value).kind = "return"
             /\ histLog = << <<query.v, tr.value>> >>
             /\ Vetted(tr.value)
             /\ histFile \in {<<>>, HistoryEntry(query.v, tr.value)}
             /\ (histEnabled /\ histIO) => histFile # <<>>
    /\ (pc # "start" /\ (tr.kind = "raise" \/ format_command(tr.value).kind = "raise"))
          => (histLog = <<>> /\ histFile = <<>> /\ systemCalls = <<>> /\ Done)

C10_Witness ==
    /\ Done
    /\ systemCalls = <<LsLa>>
    /\ answer = "y"
    /\ histFile = HistoryEntry(<<"q">>, LsLa)

====
